---------------------------- MODULE Spec2Model ----------------------------
(***************************************************************************)
(* A model of src/simulation.py: one bottleneck router simulated under     *)
(* tail-drop FIFO, choke-packet admission, per-class token buckets and     *)
(* weighted fair queuing.                                                  *)
(*                                                                         *)
(* Units.  Python floats that occur are exact multiples of a fixed         *)
(* fraction, so they are kept as integers:                                 *)
(*   finish times          in quarters (WEIGHTS are 4.0, 2.0, 1.0),        *)
(*   token counts          in halves   (Bronze refills 0.5 per packet),    *)
(*   ROUTER_SPEED, random.random()  in tenths (0.7 is 7, a draw is 0..9).  *)
(*                                                                         *)
(* Objects.  Python lists, deques and heaps hold references.  A Packet      *)
(* object is named by the id generate_traffic gave it and `objects` maps    *)
(* each reference to the object's fields; buffers, lists and the loop       *)
(* variable p hold references.                                             *)
(***************************************************************************)
EXTENDS Integers, Sequences, FiniteSets, TLC

\* ------------------------------------------------------------ constants

\* BUFFER_SIZE = 5, CHOKE_THRESHOLD = 10, ROUTER_SPEED = 0.7 as shipped.
ShippedBufferSize == 5
ShippedChokeThreshold == 10
ShippedRouterSpeed == 7

\* One unit of random.random() and ROUTER_SPEED is a tenth.
SpeedScale == 10
\* One unit of a token count is half a token.
TokenScale == 2
\* One unit of a finish time is a quarter.
FinishScale == 4

\* random.randint(1, 3)
MinSize == 1
MaxSize == 3

Types == {"Gold", "Silver", "Bronze"}

\* WEIGHTS = {'Gold': 4.0, 'Silver': 2.0, 'Bronze': 1.0}
WEIGHTS == [t \in Types |-> CASE t = "Gold" -> 4 [] t = "Silver" -> 2 [] OTHER -> 1]

\* ---------------------------------------------------------------- bounds

\* Longest input list offered to run_baseline, run_baseline_congested and
\* run_choke_packet when called directly.
MaxPackets == 6
\* Longest input list offered to run_token_bucket when called directly.
MaxPacketsToken == 6
\* Longest input list offered to run_wfq when called directly.
MaxPacketsWfq == 4
\* Largest TOTAL_PACKETS of a run of the main program.
MaxMainPackets == 2

VARIABLES
    BUFFER_SIZE,       \* module global, line 9
    CHOKE_THRESHOLD,   \* module global, line 11
    ROUTER_SPEED,      \* module global, line 12 (tenths)
    TOTAL_PACKETS,     \* module global, line 10
    objects,           \* the Packet objects, by reference
    traffic_data,      \* main's list of references
    main_pc,           \* position of the main program, "direct" for a direct call
    stats,             \* main's base_s/base_d, choke_s/choke_d, ...
    engine,            \* the engine function being executed
    pc,                \* position inside the engine function
    packets,           \* the engine's argument: a list of references
    i,                 \* number of loop iterations done
    p,                 \* the loop variable: a reference
    buffer,            \* deque of references
    priority_queue,    \* heapq list of <<finish_time, reference>>
    dropped,
    served,
    choke_active,
    buckets,           \* type -> <<current, capacity, rate>> (halves)
    last_finish_time,  \* type -> finish time (quarters)
    result,            \* the value the engine returned
    returnitem,        \* what the last heappop returned
    admit_log,         \* history: run_token_bucket's <<type, outcome>> per packet
    admitted,          \* history: the references appended or pushed, in order
    served_log,        \* history: the references removed by service, in order
    virtual_start      \* history: reference -> max(arrival_time, prev_finish) used

config == <<BUFFER_SIZE, CHOKE_THRESHOLD, ROUTER_SPEED, TOTAL_PACKETS>>
mainv == <<traffic_data, main_pc, stats>>
locals == <<packets, i, p, buffer, priority_queue, dropped, served, choke_active,
            buckets, last_finish_time, returnitem, admit_log, admitted, served_log,
            virtual_start>>
vars == <<config, mainv, objects, engine, pc, locals, result>>

None == "None"
NoRef == -1

Engines == {"baseline", "baseline_congested", "choke_packet", "token_bucket", "wfq"}

\* -------------------------------------------------------------- Packet

\* Packet.__init__: size is the random.randint draw.
Packet(id, type, arrival_time, size) ==
    [id |-> id, type |-> type, arrival_time |-> arrival_time,
     size |-> size, finish_time |-> 0]

\* Packet.__lt__ with the comparison turned round.
PacketLtLargerIdFirst(self, other) == self.id > other.id

\* Packet.__lt__
PacketLt(self, other) == self.id < other.id

\* Python's < on the heap's (finish_time, packet) tuples: the first elements
\* decide unless equal; then the packets, equal only if the same object.
TupleLt(objs, a, b) ==
    IF a[1] # b[1] THEN a[1] < b[1]
    ELSE IF a[2] = b[2] THEN FALSE
    ELSE PacketLt(objs[a[2]], objs[b[2]])

\* ---------------------------------------------------------------- heapq

RECURSIVE SiftdownLoop(_, _, _, _, _)
SiftdownLoop(objs, heap, startpos, pos, newitem) ==
    IF pos > startpos
    THEN LET parentpos == (pos - 1) \div 2
             parent == heap[parentpos + 1]
         IN  IF TupleLt(objs, newitem, parent)
             THEN SiftdownLoop(objs, [heap EXCEPT ![pos + 1] = parent],
                               startpos, parentpos, newitem)
             ELSE [heap EXCEPT ![pos + 1] = newitem]
    ELSE [heap EXCEPT ![pos + 1] = newitem]

\* heapq._siftdown
Siftdown(objs, heap, startpos, pos) ==
    SiftdownLoop(objs, heap, startpos, pos, heap[pos + 1])

RECURSIVE SiftupLoop(_, _, _, _, _)
SiftupLoop(objs, heap, startpos, pos, newitem) ==
    LET endpos == Len(heap)
        leftpos == 2 * pos + 1
    IN  IF leftpos < endpos
        THEN LET rightpos == leftpos + 1
                 childpos ==
                     IF rightpos < endpos
                        /\ ~TupleLt(objs, heap[leftpos + 1], heap[rightpos + 1])
                     THEN rightpos ELSE leftpos
             IN  SiftupLoop(objs, [heap EXCEPT ![pos + 1] = heap[childpos + 1]],
                            startpos, childpos, newitem)
        ELSE Siftdown(objs, [heap EXCEPT ![pos + 1] = newitem], startpos, pos)

\* heapq._siftup
Siftup(objs, heap, pos) == SiftupLoop(objs, heap, pos, pos, heap[pos + 1])

\* heapq.heappush(heap, item): the list afterwards.
heappush(objs, heap, item) ==
    Siftdown(objs, Append(heap, item), 0, Len(heap))

\* heap[0] in place of heapq.heappop(heap): the smallest item is read and
\* stays in the list.
heappeek(objs, heap) == <<heap[1], heap>>

\* heapq.heappop(heap) on a non-empty heap: <<returned item, list afterwards>>.
heappop(objs, heap) ==
    LET lastelt == heap[Len(heap)]
        rest == SubSeq(heap, 1, Len(heap) - 1)
    IN  IF rest # <<>>
        THEN <<rest[1], Siftup(objs, [rest EXCEPT ![1] = lastelt], 0)>>
        ELSE <<lastelt, rest>>


\* ------------------------------------------------------- input and objects

Range(s) == {s[k] : k \in DOMAIN s}

Min(a, b) == IF a < b THEN a ELSE b
Max(a, b) == IF a > b THEN a ELSE b

NoObjects == [r \in {} |-> None]

\* Longest list a direct call is offered, by engine.
MaxInput(e) ==
    CASE e = "token_bucket" -> MaxPacketsToken
      [] e = "wfq" -> MaxPacketsWfq
      [] OTHER -> MaxPackets

\* Sizes of the packets a direct call is offered: only run_wfq reads p.size,
\* the other engines are offered packets of the smallest size.
OfferedSizes(e) == IF e = "wfq" THEN MinSize..MaxSize ELSE {MinSize}

\* `for p in packets`: is there a next element.  A direct call's list is
\* arbitrary, so it may end after any iteration.
HasNext == IF main_pc = "direct" THEN i < MaxInput(engine) ELSE i < Len(packets)
Exhausted == IF main_pc = "direct" THEN TRUE ELSE i = Len(packets)

\* The next element of the list, <<reference, object>>.  A direct call's list
\* holds Packet(i, type, i) objects as generate_traffic makes them.
Arrivals ==
    IF main_pc = "direct"
    THEN {<<i, Packet(i, t, i, s)>> : t \in Types, s \in OfferedSizes(engine)}
    ELSE {<<packets[i + 1], objects[packets[i + 1]]>>}

\* The objects kept in the model: all of them under main, whose traffic_data
\* refers to each; for a direct call those the engine still refers to.
Retain(objs, live) ==
    IF main_pc = "direct"
    THEN [r \in (DOMAIN objs) \cap live |-> objs[r]]
    ELSE objs

QueueRefs(pq) == {pq[k][2] : k \in DOMAIN pq}

\* Taking the next element: p, the index, the list, and the objects.
Consume(a, objs) ==
    /\ p' = a[1]
    /\ i' = i + 1
    /\ packets' = IF main_pc = "direct" THEN Append(packets, a[1]) ELSE packets
    /\ objects' = Retain(objs, {p'} \cup Range(buffer') \cup QueueRefs(priority_queue')
                               \cup (IF returnitem' = None THEN {} ELSE {returnitem'[2]}))

\* The histories of one iteration of a deque engine: what was served (the
\* head of buf, if serve) and whether reference ref was appended.
Record(buf, serve, ref, admit) ==
    /\ served_log' = IF serve THEN Append(served_log, Head(buf)) ELSE served_log
    /\ admitted' = IF admit THEN Append(admitted, ref) ELSE admitted
    /\ UNCHANGED virtual_start

\* random.random(), in tenths
RandomDraws == 0..(SpeedScale - 1)

\* ServiceAttempt with the shipped 0.7 in place of ROUTER_SPEED.
ServiceAttemptShipped(buf, r) == buf # <<>> /\ r < ShippedRouterSpeed

\* `buffer and random.random() < ROUTER_SPEED`
ServiceAttempt(buf, r) == buf # <<>> /\ r < ROUTER_SPEED

\* The outcomes of the service test over every draw of random.random().
ServiceOutcomes(buf) == {ServiceAttempt(buf, r) : r \in RandomDraws}

\* ------------------------------------------------------------ engine entry

InitialBuckets ==
    [t \in Types |-> CASE t = "Gold" -> <<10 * TokenScale, 10 * TokenScale, 2 * TokenScale>>
                       [] t = "Silver" -> <<5 * TokenScale, 5 * TokenScale, 1 * TokenScale>>
                       [] OTHER -> <<2 * TokenScale, 2 * TokenScale, 1>>]

\* The locals of an engine function before its loop, called with `list`.
EntryLocals(list) ==
    [packets |-> list, i |-> 0, p |-> NoRef, buffer |-> <<>>, priority_queue |-> <<>>,
     dropped |-> 0, served |-> 0, choke_active |-> FALSE, buckets |-> InitialBuckets,
     last_finish_time |-> [t \in Types |-> 0], returnitem |-> None, admit_log |-> <<>>,
     admitted |-> <<>>, served_log |-> <<>>, virtual_start |-> NoObjects]

EngineEntry(list) ==
    LET e == EntryLocals(list)
    IN  /\ packets = e.packets
        /\ i = e.i
        /\ p = e.p
        /\ buffer = e.buffer
        /\ priority_queue = e.priority_queue
        /\ dropped = e.dropped
        /\ served = e.served
        /\ choke_active = e.choke_active
        /\ buckets = e.buckets
        /\ last_finish_time = e.last_finish_time
        /\ returnitem = e.returnitem
        /\ admit_log = e.admit_log
        /\ admitted = e.admitted
        /\ served_log = e.served_log
        /\ virtual_start = e.virtual_start

\* ------------------------------------------------------------ run_baseline

\* run_baseline_iter with the service test of the other engines,
\* `buffer and random.random() < ROUTER_SPEED`.
run_baseline_iter_throttled ==
    /\ pc = "loop" /\ engine = "baseline" /\ HasNext
    /\ \E a \in Arrivals, serve \in ServiceOutcomes(buffer) :
        LET buf1 == IF serve THEN Tail(buffer) ELSE buffer
            admit == Len(buf1) < BUFFER_SIZE
        IN  /\ buffer' = IF admit THEN Append(buf1, a[1]) ELSE buf1
            /\ served' = IF serve THEN served + 1 ELSE served
            /\ dropped' = IF admit THEN dropped ELSE dropped + 1
            /\ UNCHANGED <<priority_queue, choke_active, buckets, last_finish_time,
                           returnitem, admit_log>>
            /\ Record(buffer, serve, a[1], admit)
            /\ Consume(a, a[1] :> a[2] @@ objects)
    /\ UNCHANGED <<config, mainv, engine, pc, result>>

run_baseline_iter ==
    /\ pc = "loop" /\ engine = "baseline" /\ HasNext
    /\ \E a \in Arrivals :
        LET serve == buffer # <<>>
            buf1 == IF serve THEN Tail(buffer) ELSE buffer
            admit == Len(buf1) < BUFFER_SIZE
        IN  /\ buffer' = IF admit THEN Append(buf1, a[1]) ELSE buf1
            /\ served' = IF serve THEN served + 1 ELSE served
            /\ dropped' = IF admit THEN dropped ELSE dropped + 1
            /\ UNCHANGED <<priority_queue, choke_active, buckets, last_finish_time,
                           returnitem, admit_log>>
            /\ Record(buffer, serve, a[1], admit)
            /\ Consume(a, a[1] :> a[2] @@ objects)
    /\ UNCHANGED <<config, mainv, engine, pc, result>>

\* -------------------------------------------------- run_baseline_congested

run_baseline_congested_iter ==
    /\ pc = "loop" /\ engine = "baseline_congested" /\ HasNext
    /\ \E a \in Arrivals, serve \in ServiceOutcomes(buffer) :
        LET buf1 == IF serve THEN Tail(buffer) ELSE buffer
            admit == Len(buf1) < BUFFER_SIZE
        IN  /\ buffer' = IF admit THEN Append(buf1, a[1]) ELSE buf1
            /\ served' = IF serve THEN served + 1 ELSE served
            /\ dropped' = IF admit THEN dropped ELSE dropped + 1
            /\ UNCHANGED <<priority_queue, choke_active, buckets, last_finish_time,
                           returnitem, admit_log>>
            /\ Record(buffer, serve, a[1], admit)
            /\ Consume(a, a[1] :> a[2] @@ objects)
    /\ UNCHANGED <<config, mainv, engine, pc, result>>

\* flush_iter without `served += 1`.
flush_iter_uncounted ==
    /\ pc = "flush" /\ buffer # <<>>
    /\ buffer' = Tail(buffer)
    /\ served_log' = Append(served_log, Head(buffer))
    /\ UNCHANGED <<packets, i, p, priority_queue, dropped, served, choke_active, buckets,
                   last_finish_time, returnitem, admit_log, admitted, virtual_start>>
    /\ objects' = Retain(objects, {p} \cup Range(buffer'))
    /\ UNCHANGED <<config, mainv, engine, pc, result>>

\* `while buffer:` one iteration
flush_iter ==
    /\ pc = "flush" /\ buffer # <<>>
    /\ buffer' = Tail(buffer)
    /\ served' = served + 1
    /\ served_log' = Append(served_log, Head(buffer))
    /\ UNCHANGED <<packets, i, p, priority_queue, dropped, choke_active, buckets,
                   last_finish_time, returnitem, admit_log, admitted, virtual_start>>
    /\ objects' = Retain(objects, {p} \cup Range(buffer'))
    /\ UNCHANGED <<config, mainv, engine, pc, result>>

\* -------------------------------------------------------- run_choke_packet

\* Hysteresis without the dead band: one threshold switches both ways.
HysteresisOneThreshold(len, active) == len > CHOKE_THRESHOLD

\* Hysteresis switching on at the lower threshold, CHOKE_THRESHOLD / 2.
HysteresisLowThreshold(len, active) == 2 * len >= CHOKE_THRESHOLD

\* The congestion check of one iteration: choke_active afterwards.
Hysteresis(len, active) ==
    IF len > CHOKE_THRESHOLD THEN TRUE
    ELSE IF 2 * len < CHOKE_THRESHOLD THEN FALSE
    ELSE active

\* ChokeAdmit without the class test under an active choke.
ChokeAdmitClassBlind(active, type, len) == len < BUFFER_SIZE

\* ChokeAdmit with <= for < in the test of the buffer's length.
ChokeAdmitOneMore(active, type, len) ==
    IF active
    THEN IF type = "Gold" THEN len <= BUFFER_SIZE ELSE FALSE
    ELSE len <= BUFFER_SIZE

\* Admission control: is the packet appended.
ChokeAdmit(active, type, len) ==
    IF active
    THEN IF type = "Gold" THEN len < BUFFER_SIZE ELSE FALSE
    ELSE len < BUFFER_SIZE

run_choke_packet_iter ==
    /\ pc = "loop" /\ engine = "choke_packet" /\ HasNext
    /\ \E a \in Arrivals, serve \in ServiceOutcomes(buffer) :
        LET buf1 == IF serve THEN Tail(buffer) ELSE buffer
            active == Hysteresis(Len(buf1), choke_active)
            admit == ChokeAdmit(active, a[2].type, Len(buf1))
        IN  /\ buffer' = IF admit THEN Append(buf1, a[1]) ELSE buf1
            /\ served' = IF serve THEN served + 1 ELSE served
            /\ choke_active' = active
            /\ dropped' = IF admit THEN dropped ELSE dropped + 1
            /\ UNCHANGED <<priority_queue, buckets, last_finish_time, returnitem,
                           admit_log>>
            /\ Record(buffer, serve, a[1], admit)
            /\ Consume(a, a[1] :> a[2] @@ objects)
    /\ UNCHANGED <<config, mainv, engine, pc, result>>

\* -------------------------------------------------------- run_token_bucket

\* needed_tokens = 1
needed_tokens == 1 * TokenScale

\* Refill without the cap at the bucket's capacity.
RefillUncapped(b) == [t \in Types |-> <<b[t][1] + b[t][3], b[t][2], b[t][3]>>]

\* Refill adding the rate twice.
RefillTwice(b) ==
    [t \in Types |-> <<Min(b[t][2], b[t][1] + 2 * b[t][3]), b[t][2], b[t][3]>>]

\* The refill loop over all buckets.
Refill(b) == [t \in Types |-> <<Min(b[t][2], b[t][1] + b[t][3]), b[t][2], b[t][3]>>]

\* run_token_bucket_iter taking the token before the test of the buffer's
\* length: a packet dropped at a full buffer has paid.
run_token_bucket_iter_paid_drop ==
    /\ pc = "loop" /\ engine = "token_bucket" /\ HasNext
    /\ \E a \in Arrivals, serve \in ServiceOutcomes(buffer) :
        LET b1 == Refill(buckets)
            buf1 == IF serve THEN Tail(buffer) ELSE buffer
            type == a[2].type
            has_token == b1[type][1] >= needed_tokens
            admit == has_token /\ Len(buf1) < BUFFER_SIZE
        IN  /\ served' = IF serve THEN served + 1 ELSE served
            /\ buckets' = IF has_token
                          THEN [b1 EXCEPT ![type][1] = b1[type][1] - needed_tokens]
                          ELSE b1
            /\ buffer' = IF admit THEN Append(buf1, a[1]) ELSE buf1
            /\ dropped' = IF admit THEN dropped ELSE dropped + 1
            /\ admit_log' = Append(admit_log,
                   <<type, IF admit THEN "admitted"
                           ELSE IF has_token THEN "full" ELSE "throttled">>)
            /\ UNCHANGED <<priority_queue, choke_active, last_finish_time, returnitem>>
            /\ Record(buffer, serve, a[1], admit)
            /\ Consume(a, a[1] :> a[2] @@ objects)
    /\ UNCHANGED <<config, mainv, engine, pc, result>>

run_token_bucket_iter ==
    /\ pc = "loop" /\ engine = "token_bucket" /\ HasNext
    /\ \E a \in Arrivals, serve \in ServiceOutcomes(buffer) :
        LET b1 == Refill(buckets)
            buf1 == IF serve THEN Tail(buffer) ELSE buffer
            type == a[2].type
            has_token == b1[type][1] >= needed_tokens
            admit == has_token /\ Len(buf1) < BUFFER_SIZE
        IN  /\ served' = IF serve THEN served + 1 ELSE served
            /\ buckets' = IF admit
                          THEN [b1 EXCEPT ![type][1] = b1[type][1] - needed_tokens]
                          ELSE b1
            /\ buffer' = IF admit THEN Append(buf1, a[1]) ELSE buf1
            /\ dropped' = IF admit THEN dropped ELSE dropped + 1
            /\ admit_log' = Append(admit_log,
                   <<type, IF admit THEN "admitted"
                           ELSE IF has_token THEN "full" ELSE "throttled">>)
            /\ UNCHANGED <<priority_queue, choke_active, last_finish_time, returnitem>>
            /\ Record(buffer, serve, a[1], admit)
            /\ Consume(a, a[1] :> a[2] @@ objects)
    /\ UNCHANGED <<config, mainv, engine, pc, result>>

\* ----------------------------------------------------------------- run_wfq

\* max(p.arrival_time, prev_finish), in quarters
VirtualStart(pkt, prev_finish) == Max(pkt.arrival_time * FinishScale, prev_finish)

\* VirtualFinish from the arrival time alone, without the max.
VirtualFinishFromArrival(pkt, prev_finish) ==
    pkt.arrival_time * FinishScale + (pkt.size * FinishScale) \div WEIGHTS[pkt.type]

\* VirtualFinish with the size multiplied by the weight, not divided by it.
VirtualFinishTimesWeight(pkt, prev_finish) ==
    VirtualStart(pkt, prev_finish) + pkt.size * FinishScale * WEIGHTS[pkt.type]

\* max(p.arrival_time, prev_finish) + (p.size / weight), in quarters
VirtualFinish(pkt, prev_finish) ==
    VirtualStart(pkt, prev_finish) + (pkt.size * FinishScale) \div WEIGHTS[pkt.type]

run_wfq_iter ==
    /\ pc = "loop" /\ engine = "wfq" /\ HasNext
    /\ \E a \in Arrivals, serve \in ServiceOutcomes(priority_queue) :
        LET popped == heappop(objects, priority_queue)
            pq1 == IF serve THEN popped[2] ELSE priority_queue
            type == a[2].type
            virtual_finish == VirtualFinish(a[2], last_finish_time[type])
            objs == a[1] :> [a[2] EXCEPT !.finish_time = virtual_finish] @@ objects
            admit == Len(pq1) < BUFFER_SIZE
        IN  /\ served' = IF serve THEN served + 1 ELSE served
            /\ returnitem' = IF serve THEN popped[1] ELSE None
            /\ last_finish_time' = [last_finish_time EXCEPT ![type] = virtual_finish]
            /\ priority_queue' = IF admit
                                 THEN heappush(objs, pq1, <<virtual_finish, a[1]>>)
                                 ELSE pq1
            /\ dropped' = IF admit THEN dropped ELSE dropped + 1
            /\ UNCHANGED <<buffer, choke_active, buckets, admit_log>>
            /\ served_log' = IF serve THEN Append(served_log, popped[1][2]) ELSE served_log
            /\ admitted' = IF admit THEN Append(admitted, a[1]) ELSE admitted
            /\ Consume(a, objs)
            /\ virtual_start' =
                   LET vs == a[1] :> VirtualStart(a[2], last_finish_time[type])
                                 @@ virtual_start
                   IN  [ref \in (DOMAIN vs) \cap (DOMAIN objects') |-> vs[ref]]
    /\ UNCHANGED <<config, mainv, engine, pc, result>>

\* ---------------------------------------------------------- loop end, return

\* run_baseline_congested: `for p in packets` ends, on to the flush.
loop_exit ==
    /\ pc = "loop" /\ Exhausted /\ engine = "baseline_congested"
    /\ pc' = "flush"
    /\ UNCHANGED <<config, mainv, objects, engine, locals, result>>

\* The engines main calls, in order, and what follows each.
AfterCall(e) ==
    CASE e = "baseline_congested" -> "choke_packet"
      [] e = "choke_packet" -> "token_bucket"
      [] e = "token_bucket" -> "wfq"
      [] OTHER -> "report"

MainEngines == {"baseline_congested", "choke_packet", "token_bucket", "wfq"}

\* The value of `return served, dropped`
ReturnValue == <<served, dropped>>

\* The loop before `return served, dropped` ends (the flush in
\* run_baseline_congested, `for p in packets` in the others) and the function
\* returns, to main or to the direct caller.
return ==
    /\ IF engine = "baseline_congested"
       THEN pc = "flush" /\ buffer = <<>>
       ELSE pc = "loop" /\ Exhausted
    /\ result' = ReturnValue
    /\ IF main_pc = "direct"
       THEN /\ pc' = "done"
            /\ UNCHANGED mainv
       ELSE /\ pc' = "idle"
            /\ stats' = [stats EXCEPT ![engine] = ReturnValue]
            /\ main_pc' = AfterCall(engine)
            /\ UNCHANGED traffic_data
    /\ UNCHANGED <<config, objects, engine, locals>>

\* -------------------------------------------------------------------- main

\* generate_traffic: one iteration of its loop
generate_traffic_iter ==
    /\ main_pc = "generate" /\ Len(traffic_data) < TOTAL_PACKETS
    /\ \E t \in Types, s \in MinSize..MaxSize :
        LET id == Len(traffic_data)
        IN  /\ objects' = id :> Packet(id, t, id, s) @@ objects
            /\ traffic_data' = Append(traffic_data, id)
    /\ UNCHANGED <<config, main_pc, stats, engine, pc, locals, result>>

\* generate_traffic returns
generate_traffic_return ==
    /\ main_pc = "generate" /\ Len(traffic_data) = TOTAL_PACKETS
    /\ main_pc' = "baseline_congested"
    /\ UNCHANGED <<config, traffic_data, stats, objects, engine, pc, locals, result>>

\* run_x(traffic_data.copy()): list.copy() makes a new list of the same
\* references.
call ==
    /\ main_pc \in MainEngines /\ pc = "idle"
    /\ UNCHANGED <<config, mainv, objects, result>>
    /\ engine' = main_pc
    /\ pc' = "loop"
    /\ LET e == EntryLocals(traffic_data)
       IN  /\ packets' = e.packets
           /\ i' = e.i
           /\ p' = e.p
           /\ buffer' = e.buffer
           /\ priority_queue' = e.priority_queue
           /\ dropped' = e.dropped
           /\ served' = e.served
           /\ choke_active' = e.choke_active
           /\ buckets' = e.buckets
           /\ last_finish_time' = e.last_finish_time
           /\ returnitem' = e.returnitem
           /\ admit_log' = e.admit_log
           /\ admitted' = e.admitted
           /\ served_log' = e.served_log
           /\ virtual_start' = e.virtual_start

\* ------------------------------------------------------------------- specs

\* The state at the start of the loop of engine function e, called directly.
InitDirect(es, bufs, thresholds, speeds) ==
    /\ BUFFER_SIZE \in bufs
    /\ CHOKE_THRESHOLD \in thresholds
    /\ ROUTER_SPEED \in speeds
    /\ TOTAL_PACKETS = 0
    /\ objects = NoObjects
    /\ traffic_data = <<>>
    /\ main_pc = "direct"
    /\ stats = [e \in MainEngines |-> None]
    /\ engine \in es
    /\ pc = "loop"
    /\ EngineEntry(<<>>)
    /\ result = None

\* The state in which main starts.
InitMain ==
    /\ BUFFER_SIZE \in {1, ShippedBufferSize}
    /\ CHOKE_THRESHOLD \in {1, ShippedChokeThreshold}
    /\ ROUTER_SPEED = ShippedRouterSpeed
    /\ TOTAL_PACKETS \in 0..MaxMainPackets
    /\ objects = NoObjects
    /\ traffic_data = <<>>
    /\ main_pc = "generate"
    /\ stats = [e \in MainEngines |-> None]
    /\ engine = None
    /\ pc = "idle"
    /\ EngineEntry(<<>>)
    /\ result = None

InitBaseline ==
    InitDirect({"baseline"}, {1, 2, ShippedBufferSize}, {ShippedChokeThreshold},
               {ShippedRouterSpeed})

InitFifo ==
    InitDirect({"baseline_congested"}, {1, 2, ShippedBufferSize},
               {ShippedChokeThreshold}, {ShippedRouterSpeed, SpeedScale})

InitChoke ==
    InitDirect({"choke_packet"}, {2, ShippedBufferSize},
               {1, 2, ShippedChokeThreshold}, {ShippedRouterSpeed})

InitToken ==
    InitDirect({"token_bucket"}, {2, ShippedBufferSize}, {ShippedChokeThreshold},
               {ShippedRouterSpeed})

InitWfq ==
    InitDirect({"wfq"}, {2, 3}, {ShippedChokeThreshold}, {ShippedRouterSpeed})

NextBaseline == run_baseline_iter \/ return

NextFifo ==
    run_baseline_congested_iter \/ loop_exit \/ flush_iter \/ return

NextChoke == run_choke_packet_iter \/ return

NextToken == run_token_bucket_iter \/ return

NextWfq == run_wfq_iter \/ return

NextMain ==
    \/ generate_traffic_iter
    \/ generate_traffic_return
    \/ call
    \/ run_baseline_congested_iter
    \/ flush_iter
    \/ run_choke_packet_iter
    \/ run_token_bucket_iter
    \/ run_wfq_iter
    \/ loop_exit
    \/ return

\* Any engine function, called directly with any list.
Init == InitBaseline \/ InitFifo \/ InitChoke \/ InitToken \/ InitWfq

Next ==
    \/ run_baseline_iter
    \/ run_baseline_congested_iter
    \/ flush_iter
    \/ run_choke_packet_iter
    \/ run_token_bucket_iter
    \/ run_wfq_iter
    \/ loop_exit
    \/ return

Spec == Init /\ [][Next]_vars

SpecBaseline == InitBaseline /\ [][NextBaseline]_vars
SpecFifo == InitFifo /\ [][NextFifo]_vars
SpecChoke == InitChoke /\ [][NextChoke]_vars
SpecToken == InitToken /\ [][NextToken]_vars
SpecWfq == InitWfq /\ [][NextWfq]_vars

\* run_baseline_congested runs on until it returns.
SpecFifoLive == SpecFifo /\ WF_vars(NextFifo)

\* The main program: generate_traffic, then the four engines on copies.
SpecMain == InitMain /\ [][NextMain]_vars

\* The state in which main starts when the constants of lines 9-12 have been
\* edited to any values: nothing in the module reads them before the engines
\* do.  BUFFER_SIZE 0, ROUTER_SPEED 0.0 and 1.2 are among them.
InitMainAnyConfig ==
    /\ BUFFER_SIZE \in {0, 1}
    /\ CHOKE_THRESHOLD = ShippedChokeThreshold
    /\ ROUTER_SPEED \in {0, ShippedRouterSpeed, SpeedScale + 2}
    /\ TOTAL_PACKETS \in 0..MaxMainPackets
    /\ objects = NoObjects
    /\ traffic_data = <<>>
    /\ main_pc = "generate"
    /\ stats = [e \in MainEngines |-> None]
    /\ engine = None
    /\ pc = "idle"
    /\ EngineEntry(<<>>)
    /\ result = None

\* The main program under any configuration.
SpecMainAnyConfig == InitMainAnyConfig /\ [][NextMain]_vars

\* ------------------------------------------------------------------ claims

\* The engine function has returned to a direct caller.
Returned == main_pc = "direct" /\ pc = "done"

\* What one iteration of a deque engine did, read off the step: whether a
\* packet was served, and whether the arriving packet p' was appended or dropped.
IterationOf(e) == engine = e /\ pc = "loop" /\ i' = i + 1
ServedInStep == served' = served + 1
AfterService == IF ServedInStep THEN Tail(buffer) ELSE buffer
AppendedInStep == buffer' = Append(AfterService, p') /\ dropped' = dropped
DroppedInStep == buffer' = AfterService /\ dropped' = dropped + 1

\* C1 (as claimed): every engine main runs returns served + dropped = N, N the
\* number of packets of its input.
C1_Conservation ==
    (Returned /\ engine \in MainEngines) => result[1] + result[2] = i

\* C2: in an iteration of run_choke_packet in which choke_active is true at
\* admission, a Gold packet is dropped only if the buffer holds BUFFER_SIZE
\* packets and is appended otherwise, and a Silver or Bronze packet is dropped
\* and not appended, whatever room there is.
C2_ChokeProtection ==
    [][(IterationOf("choke_packet") /\ choke_active')
        => IF objects'[p'].type = "Gold"
           THEN IF Len(AfterService) >= BUFFER_SIZE THEN DroppedInStep
                ELSE AppendedInStep
           ELSE DroppedInStep]_vars

\* C2 witness: under an active choke a Silver or Bronze packet has just been
\* dropped although the buffer has room.
C2_Witness ==
    /\ engine = "choke_packet" /\ pc = "loop" /\ choke_active /\ p # NoRef
    /\ objects[p].type # "Gold"
    /\ p \notin Range(buffer)
    /\ Len(buffer) < BUFFER_SIZE

\* Packets of class c admitted by run_token_bucket among the processed
\* packets number a..b.
AdmittedIn(c, a, b) ==
    Cardinality({k \in a..b : admit_log[k] = <<c, "admitted">>})

\* C3: in run_token_bucket, in every window of k consecutive processed packets
\* the packets of class c admitted number at most capacity_c + refill_rate_c * k
\* (both sides in half tokens).
C3_TokenCeiling ==
    engine = "token_bucket" =>
        \A c \in Types : \A a \in 1..Len(admit_log) : \A b \in a..Len(admit_log) :
            AdmittedIn(c, a, b) * TokenScale
                <= InitialBuckets[c][2] + InitialBuckets[c][3] * (b - a + 1)

\* C3 witness: a window of consecutive packets all of one class in which a
\* packet was dropped for want of a token and one more admission would exceed
\* the ceiling.
C3_Witness ==
    /\ engine = "token_bucket"
    /\ \E c \in Types : \E a \in 1..Len(admit_log) : \E b \in a..Len(admit_log) :
        /\ \A k \in a..b : admit_log[k][1] = c
        /\ \E k \in a..b : admit_log[k] = <<c, "throttled">>
        /\ (AdmittedIn(c, a, b) + 1) * TokenScale
              > InitialBuckets[c][2] + InitialBuckets[c][3] * (b - a + 1)

\* An iteration of run_wfq that served a packet.
WfqServes == engine = "wfq" /\ pc = "loop" /\ served' = served + 1

\* Entry x of the priority queue is before entry y: smaller finish_time, or
\* the same finish_time and the smaller id.
Before(objs, x, y) ==
    \/ objs[x[2]].finish_time < objs[y[2]].finish_time
    \/ /\ objs[x[2]].finish_time = objs[y[2]].finish_time
       /\ objs[x[2]].id < objs[y[2]].id

\* C4: whenever run_wfq serves, the packet removed from the priority queue is
\* the queued packet with the smallest finish_time, and among queued packets of
\* that finish_time the one with the smallest id.
C4_ServiceOrder ==
    [][WfqServes
        => /\ returnitem' \in Range(priority_queue)
           /\ \A e \in Range(priority_queue) :
                  e # returnitem' => Before(objects, returnitem', e)]_vars

\* C4 witness: the packet just served left behind a packet of the same
\* finish_time that was queued with it: the id decided.
C4_Witness ==
    /\ engine = "wfq" /\ returnitem # None
    /\ \E e \in Range(priority_queue) :
        /\ e[2] # p
        /\ objects[e[2]].finish_time = objects[returnitem[2]].finish_time

\* C5: in run_wfq the finish_time given to a packet is not below the one given
\* to the previous packet of its class, and no class's last_finish_time ever
\* decreases.
C5_Monotonic ==
    [][IterationOf("wfq")
        => /\ \A t \in Types : last_finish_time'[t] >= last_finish_time[t]
           /\ objects'[p'].finish_time >= last_finish_time[objects'[p'].type]
           /\ last_finish_time'[objects'[p'].type] = objects'[p'].finish_time]_vars

\* C5 witness: a packet whose finish_time was computed from its class's
\* previous finish_time, which lay after its arrival.
C5_Witness ==
    /\ engine = "wfq" /\ p # NoRef
    /\ virtual_start[p] > objects[p].arrival_time * FinishScale

\* Pairs <<a, b>> of references among refs: packets of different classes, a's
\* class the heavier, with the same start max(arrival_time, last_finish_time).
SameStart(objs, starts, refs) ==
    {ab \in refs \X refs :
        /\ WEIGHTS[objs[ab[1]].type] > WEIGHTS[objs[ab[2]].type]
        /\ starts[ab[1]] = starts[ab[2]]}

\* The packets run_wfq has given a finish_time that the model still holds.
Assigned == {packets[k] : k \in 1..i} \cap DOMAIN virtual_start

\* C6 (as claimed): of two packets of different classes with the same start,
\* whatever their sizes, the one of the heavier class has the strictly smaller
\* finish_time.
C6_AnySizes ==
    engine = "wfq" =>
        \A ab \in SameStart(objects, virtual_start, Assigned) :
            objects[ab[1]].finish_time < objects[ab[2]].finish_time

\* C6 (amended): of two packets of different classes with the same start and
\* the same size, the one of the heavier class has the strictly smaller
\* finish_time, and while both are queued the other one is not served.
C6_EqualSizes ==
    [][engine = "wfq"
        => /\ \A ab \in SameStart(objects', virtual_start', Assigned') :
                  objects'[ab[1]].size = objects'[ab[2]].size
                      => objects'[ab[1]].finish_time < objects'[ab[2]].finish_time
           /\ WfqServes
                  => \A ab \in SameStart(objects, virtual_start,
                                         QueueRefs(priority_queue)) :
                         objects[ab[1]].size = objects[ab[2]].size
                             => returnitem'[2] # ab[2]]_vars

\* C6 witness: the packet just served is of a heavier class than a packet of
\* the same start and size that was queued with it and still is.
C6_Witness ==
    /\ engine = "wfq" /\ returnitem # None
    /\ \E e \in Range(priority_queue) :
        /\ e[2] # p
        /\ <<returnitem[2], e[2]>> \in SameStart(objects, virtual_start, DOMAIN objects)
        /\ objects[returnitem[2]].size = objects[e[2]].size

\* C7: with ROUTER_SPEED = 1.0 run_baseline_congested drops no packet, never
\* holds more than one packet, and returns served = N, dropped = 0.
C7_CertainService ==
    (engine = "baseline_congested" /\ ROUTER_SPEED = SpeedScale)
        => /\ dropped = 0
           /\ Len(buffer) <= 1
           /\ Returned => result = <<i, 0>>

\* C7 witness: a run with ROUTER_SPEED = 1.0 has returned after more packets
\* than the buffer has room for.
C7_Witness ==
    /\ engine = "baseline_congested" /\ ROUTER_SPEED = SpeedScale /\ Returned
    /\ i > BUFFER_SIZE

\* C8: run_baseline_congested returns, and when it has, its buffer is empty
\* and the packets counted in served are the admitted packets, each once.
C8_FlushTerminates ==
    /\ <>(pc = "done")
    /\ [](pc = "done"
            => /\ buffer = <<>>
               /\ served_log = admitted
               /\ served = Len(served_log))

\* C8 witness: a run has returned in which packets were dropped and the flush
\* served the last packet offered.
C8_Witness ==
    /\ engine = "baseline_congested" /\ Returned
    /\ dropped > 0
    /\ p \in Range(served_log)

\* C9 (as claimed): an engine returns a mapping from each class to that
\* class's served and dropped counts.
C9_PerClassResult ==
    Returned
        => /\ DOMAIN result = Types
           /\ \A t \in Types : DOMAIN result[t] = {"served", "dropped"}

\* C10 (as claimed): once main has generated traffic_data, no engine writes
\* to a Packet of it: every packet of traffic_data keeps finish_time 0, also
\* after run_wfq has returned.
C10_NoAliasing ==
    main_pc \in MainEngines \cup {"report"}
        => \A k \in DOMAIN traffic_data : objects[traffic_data[k]].finish_time = 0

\* C11 (as claimed): finish_time is written only on admission: a packet that
\* run_wfq has not pushed onto the priority queue, a packet dropped at a full
\* queue among them, has finish_time 0.
C11_WrittenOnAdmission ==
    engine = "wfq" =>
        \A r \in DOMAIN objects :
            r \notin Range(admitted) => objects[r].finish_time = 0

\* The configuration is one the specification calls invalid: BUFFER_SIZE < 1
\* or ROUTER_SPEED outside (0, 1].
InvalidConfiguration ==
    BUFFER_SIZE < 1 \/ ROUTER_SPEED <= 0 \/ ROUTER_SPEED > SpeedScale

\* C12 (as claimed): under an invalid configuration no engine processes a
\* packet: none performs a service or admission step, the program having been
\* stopped before.
C12_InvalidRejected ==
    InvalidConfiguration
        => /\ i = 0 /\ served = 0 /\ dropped = 0
           /\ buffer = <<>> /\ priority_queue = <<>>

\* C14: in every iteration of run_choke_packet, with len the buffer's length
\* after the service attempt, choke_active becomes true if len > CHOKE_THRESHOLD,
\* becomes false if len < CHOKE_THRESHOLD / 2, and otherwise keeps its value; so
\* it goes from false to true only where len > CHOKE_THRESHOLD and from true to
\* false only where len < CHOKE_THRESHOLD / 2.
C14_Hysteresis ==
    [][IterationOf("choke_packet")
        => LET len == Len(AfterService)
           IN  /\ len > CHOKE_THRESHOLD => choke_active'
               /\ 2 * len < CHOKE_THRESHOLD => ~choke_active'
               /\ (len <= CHOKE_THRESHOLD /\ 2 * len >= CHOKE_THRESHOLD)
                      => choke_active' = choke_active
               /\ (~choke_active /\ choke_active') => len > CHOKE_THRESHOLD
               /\ (choke_active /\ ~choke_active')
                      => 2 * len < CHOKE_THRESHOLD]_vars

\* C14 witness: choke_active is true after an iteration that dropped its
\* packet at a length inside the dead band: the flag was kept, not set.
C14_Witness ==
    /\ engine = "choke_packet" /\ pc = "loop" /\ choke_active /\ p # NoRef
    /\ p \notin Range(buffer)
    /\ Len(buffer) <= CHOKE_THRESHOLD
    /\ 2 * Len(buffer) >= CHOKE_THRESHOLD

\* The packets an engine holds: the heap of run_wfq, the deque of the others.
Held == IF engine = "wfq" THEN priority_queue ELSE buffer

\* C15: in every reachable state of every engine the number of held packets
\* is between 0 and BUFFER_SIZE, and a packet is served only from a buffer
\* that holds one.
C15_BufferBound ==
    /\ [](Len(Held) >= 0 /\ Len(Held) <= BUFFER_SIZE)
    /\ [][ServedInStep => Held # <<>> /\ Len(Held') >= Len(Held) - 1]_vars

\* C15 witness: run_wfq has served a packet from a full heap, pushed the
\* arriving one in its place, and has dropped a packet before.
C15_Witness ==
    /\ engine = "wfq" /\ pc = "loop"
    /\ Len(priority_queue) = BUFFER_SIZE
    /\ returnitem # None
    /\ p \in QueueRefs(priority_queue)
    /\ dropped > 0

\* What the refill makes of bucket t of b: min(capacity, current + rate).
Refilled(b, t) == IF b[t][1] + b[t][3] < b[t][2] THEN b[t][1] + b[t][3] ELSE b[t][2]

\* C16: in run_token_bucket every bucket's current_tokens is within 0 and
\* its capacity in every reachable state, and each iteration refills every
\* class's bucket once: afterwards a bucket holds min(capacity, current + rate),
\* less the token of the arriving packet if that was admitted from it, and its
\* capacity and rate are as before.
C16_TokenRange ==
    /\ [](engine = "token_bucket"
            => \A t \in Types : buckets[t][1] >= 0 /\ buckets[t][1] <= buckets[t][2])
    /\ [][IterationOf("token_bucket")
            => \A t \in Types :
                 /\ buckets'[t][2] = buckets[t][2] /\ buckets'[t][3] = buckets[t][3]
                 /\ buckets'[t][1] =
                        IF t = objects'[p'].type /\ AppendedInStep
                        THEN Refilled(buckets, t) - needed_tokens
                        ELSE Refilled(buckets, t)]_vars

\* C16 witness: after an iteration a class other than the arriving packet's
\* holds fewer tokens than its capacity: its bucket was refilled by its rate,
\* short of the cap, though no packet of its class arrived.
C16_Witness ==
    /\ engine = "token_bucket" /\ p # NoRef
    /\ \E t \in Types :
        /\ t # objects[p].type
        /\ buckets[t][1] > 0 /\ buckets[t][1] < buckets[t][2]

\* C17: in run_token_bucket a packet of class c is admitted if and only if,
\* after refill and service, bucket c holds at least 1 token and the buffer
\* fewer than BUFFER_SIZE packets; an admission takes exactly 1 token from
\* bucket c and none from another bucket; a drop of either kind takes no
\* token from any bucket and raises dropped by 1.
C17_TokenAdmission ==
    [][IterationOf("token_bucket")
        => LET c == objects'[p'].type
               has_token == Refilled(buckets, c) >= TokenScale
               room == Len(AfterService) < BUFFER_SIZE
           IN  /\ AppendedInStep <=> (has_token /\ room)
               /\ AppendedInStep
                    => /\ buckets'[c][1] = Refilled(buckets, c) - TokenScale
                       /\ \A t \in Types \ {c} : buckets'[t][1] = Refilled(buckets, t)
               /\ ~AppendedInStep
                    => /\ DroppedInStep
                       /\ \A t \in Types : buckets'[t][1] = Refilled(buckets, t)]_vars

\* C17 witness: a packet whose class had a token has just been dropped at a
\* full buffer, after a packet was dropped for want of a token and another
\* admitted.
C17_Witness ==
    /\ engine = "token_bucket" /\ admit_log # <<>>
    /\ admit_log[Len(admit_log)][2] = "full"
    /\ Len(buffer) = BUFFER_SIZE
    /\ \E k \in DOMAIN admit_log : admit_log[k][2] = "throttled"
    /\ \E k \in DOMAIN admit_log : admit_log[k][2] = "admitted"

\* The references an engine holds.
HeldRefs == IF engine = "wfq" THEN QueueRefs(priority_queue) ELSE Range(buffer)

\* C18: in every engine served + dropped + the number of packets held equals
\* the number of packets processed so far, after each iteration; an iteration
\* raises served by at most 1, taking the served packet from those held, and
\* either counts the arriving packet in dropped or adds it to those held,
\* never both.
C18_StepAccounting ==
    /\ [](pc \in {"loop", "flush", "done"} => served + dropped + Len(Held) = i)
    /\ [][(pc = "loop" /\ i' = i + 1)
            => LET out == served' - served
               IN  /\ out \in {0, 1}
                   /\ \/ /\ dropped' = dropped + 1
                         /\ Len(Held') = Len(Held) - out
                         /\ p' \notin HeldRefs'
                      \/ /\ dropped' = dropped
                         /\ Len(Held') = Len(Held) - out + 1
                         /\ p' \in HeldRefs']_vars

\* C18 witness: run_choke_packet has served packets, holds packets, and has
\* just dropped the arriving one under an active choke.
C18_Witness ==
    /\ engine = "choke_packet" /\ pc = "loop" /\ choke_active
    /\ served > 0 /\ dropped > 0 /\ buffer # <<>>
    /\ p \notin Range(buffer)
    /\ served + dropped + Len(buffer) = i

\* run_choke_packet under the constants as shipped.
ChokeAsShipped ==
    /\ engine = "choke_packet"
    /\ BUFFER_SIZE = ShippedBufferSize
    /\ CHOKE_THRESHOLD = ShippedChokeThreshold

\* C19: with BUFFER_SIZE = 5 and CHOKE_THRESHOLD = 10 choke_active is false
\* in every reachable state of run_choke_packet, and every iteration admits
\* or drops its packet as the loop of run_baseline_congested does for the same
\* service outcome: appended if the buffer then holds fewer than BUFFER_SIZE
\* packets, dropped otherwise, whatever its class.
C19_ChokeUnreachable ==
    /\ [](ChokeAsShipped => ~choke_active)
    /\ [][(ChokeAsShipped /\ IterationOf("choke_packet"))
            => IF Len(AfterService) < BUFFER_SIZE
               THEN AppendedInStep
               ELSE DroppedInStep]_vars

\* C19 witness: under the shipped constants run_choke_packet holds a full
\* buffer with a Silver or Bronze packet in it and has just dropped a Gold
\* packet.
C19_Witness ==
    /\ ChokeAsShipped /\ p # NoRef
    /\ Len(buffer) = BUFFER_SIZE
    /\ p \notin Range(buffer)
    /\ objects[p].type = "Gold"
    /\ \E r \in Range(buffer) : objects[r].type # "Gold"

\* C20: run_baseline with BUFFER_SIZE >= 1 drops no packet, holds at most one
\* packet after each step, that one the packet last offered, and called with
\* N >= 1 packets returns served = N - 1 and dropped = 0.
C20_UnthrottledBaseline ==
    (engine = "baseline" /\ BUFFER_SIZE >= 1)
        => /\ dropped = 0
           /\ Len(buffer) <= 1
           /\ i >= 1 => buffer = <<p>> /\ served = i - 1
           /\ (Returned /\ i >= 1) => result = <<i - 1, 0>>

\* C20 witness: run_baseline has returned from a list longer than the buffer
\* has room for.
C20_Witness ==
    /\ engine = "baseline" /\ Returned
    /\ i > BUFFER_SIZE
    /\ served_log # <<>>

=============================================================================
